---- MODULE Spec2Model ----
(***************************************************************************)
(* SimulatedAnnealingSolver (demon-energy variant) of                      *)
(* infinigen/core/constraints/example_solver/annealing_testOptiP.py.       *)
(*                                                                         *)
(* Energies and losses are exact rationals, stored as integers in units of *)
(* 1/Scale with Scale = reduction_factor_den^MaxIters, so that             *)
(* initial_demon_energy_max * reduction_factor^i is an integer for every   *)
(* iteration index i the model reaches.                                    *)
(***************************************************************************)
EXTENDS Integers, Sequences, FiniteSets, TLC

\* ---------------------------------------------------------------- bounds
\* steps taken between two resets
MaxIters == 3
\* largest configured max_invalid_candidates
MaxInvalid == 2
\* records the stats list holds at most
MaxStats == 2
\* maxsize of a bounded reporting queue
QueueMax == 1

\* ------------------------------------------------ constructor parameters
initial_demon_energy == 100
initial_demon_energy_max == 200
\* reduction_factor = 0.85 = 17/20
reduction_factor_num == 17
reduction_factor_den == 20
\* random_acceptance_chance = 0.01, and draws of random.uniform(0, 1), in 1/1000
random_acceptance_chance == 10
Draws == {0, 9, 10, 500}

RECURSIVE Pow(_, _)
Pow(b, e) == IF e = 0 THEN 1 ELSE b * Pow(b, e - 1)

Scale == Pow(reduction_factor_den, MaxIters)

\* Python's None, and a present value, for the optional fields
None == << >>
Some(x) == << x >>
Val(o) == o[1]

\* ------------------------------------------- scene, constraint graph, moves
\* State: two placed objects, each at one of three positions
Objs == {1, 2}
Pos == {0, 1, 2}
States == [Objs -> Pos]

\* ConstraintGraph: two soft unary nodes and one hard binary node
Nodes == {"n1", "n2", "n12"}
Deps(n) == CASE n = "n1" -> {1} [] n = "n2" -> {2} [] OTHER -> {1, 2}

\* per-node evaluation: a pure function of State
EvalNode(n, st) ==
    CASE n = "n1" -> [loss |-> st[1] * Scale, viol |-> 0]
      [] n = "n2" -> [loss |-> 140 * st[2] * Scale, viol |-> 0]
      [] OTHER -> [loss |-> 0, viol |-> IF st[1] = st[2] THEN 1 ELSE 0]

NoEntry == [loss |-> 0, viol |-> -1]
EmptyMemo == [n \in Nodes |-> NoEntry]

\* the value evaluate_problem uses for node n: the memo entry when there is one
NodeValue(n, st, memo) == IF memo[n] # NoEntry THEN memo[n] ELSE EvalNode(n, st)

\* evaluate.evaluate_problem(consgraph, state, filter_domain, memo):
\* the aggregate result and the memo as the call leaves it
evaluate_problem(st, memo) ==
    LET v(n) == NodeValue(n, st, memo)
    IN [result |-> [loss |-> v("n1").loss + v("n2").loss + v("n12").loss,
                    viol |-> v("n1").viol + v("n2").viol + v("n12").viol],
        memo |-> [n \in Nodes |-> v(n)]]

\* eval_memo.evict_memo_for_move(consgraph, state, memo, move): every entry whose
\* node depends on what the move touches goes, and a conservative policy may
\* drop more (extra); an unsound policy leaves some of them (missed)
evict_memo_for_move(memo, m, extra, missed) ==
    [n \in Nodes |-> IF (m.obj \in Deps(n) /\ n \notin missed) \/ n \in extra
                     THEN NoEntry
                     ELSE memo[n]]

\* the nodes whose value an evaluation takes from the memo
MemoHits(memo) == Cardinality({n \in Nodes : memo[n] # NoEntry})

\* candidate moves a proposal function can yield; saved = -1: not applied yet
Proposals == [obj : Objs, to : Pos, ok : BOOLEAN, saved : {-1}]

\* Move.apply(state): the mutation
MoveApplied(st, m) == [st EXCEPT ![m.obj] = m.to]
\* Move.revert(state): back to the contents saved by apply
MoveReverted(st, m) == [st EXCEPT ![m.obj] = m.saved]

VARIABLES
    max_invalid_candidates, do_lazy_eval, validate_lazy_eval,
    checkpoint_best, print_report_freq, queue_maxsize, move_gen_func, evict_sound,
    state,
    curr_iteration, curr_result, eval_memo, demon_energy, demon_energy_max,
    pc, move, retry, prop_result, accept,
    state0, result0, n_pulls, n_applies, n_evals, exhausted, memo_hits,
    acc,
    queue, queue_closed, stats

vars == << max_invalid_candidates, do_lazy_eval, validate_lazy_eval,
           checkpoint_best, print_report_freq, queue_maxsize, move_gen_func,
           evict_sound, state,
           curr_iteration, curr_result, eval_memo, demon_energy, demon_energy_max,
           pc, move, retry, prop_result, accept,
           state0, result0, n_pulls, n_applies, n_evals, exhausted, memo_hits, acc,
           queue, queue_closed, stats >>

\* the constructor's parameters, the flags of _move, the proposal function handed
\* to step (the candidates it can yield) and whether the eviction policy of
\* evict_memo_for_move is sound
config == << max_invalid_candidates, do_lazy_eval, validate_lazy_eval,
            checkpoint_best, print_report_freq, queue_maxsize, move_gen_func,
            evict_sound >>
solver == << curr_iteration, curr_result, eval_memo, demon_energy, demon_energy_max >>
locals == << move, retry, prop_result, accept >>
history == << state0, result0, n_pulls, n_applies, n_evals, exhausted, memo_hits >>
\* the reporting queue (self.queue) and the stats list (self.stats)
report == << queue, queue_closed, stats >>

\* queue=None: no reporting queue
NoQueue == -1

\* the entries evict_memo_for_move may leave behind
Missable == IF evict_sound THEN {{}} ELSE SUBSET Nodes

NoCall == [called |-> FALSE]

\* SimulatedAnnealingSolver.__init__: the fields it sets, and the raise of
\* NotImplementedError when checkpoint_best is set. curr_iteration and curr_result
\* exist only once reset has run: pc = "new" allows nothing but reset.
\* __init__ without the raise on checkpoint_best
Common_without_raise ==
    /\ curr_iteration = 0
    /\ curr_result = None
    /\ eval_memo = EmptyMemo
    /\ demon_energy = initial_demon_energy * Scale
    /\ demon_energy_max = initial_demon_energy_max * Scale
    /\ pc = "new"
    /\ move = None
    /\ retry = None
    /\ prop_result = None
    /\ accept = "unset"
    /\ state0 = state
    /\ result0 = None
    /\ n_pulls = 0
    /\ n_applies = 0
    /\ n_evals = 0
    /\ exhausted = FALSE
    /\ memo_hits = 0
    /\ acc = NoCall
    /\ queue = << >>
    /\ queue_closed = FALSE
    /\ stats = << >>

Common ==
    /\ curr_iteration = 0
    /\ curr_result = None
    /\ eval_memo = EmptyMemo
    /\ demon_energy = initial_demon_energy * Scale
    /\ demon_energy_max = initial_demon_energy_max * Scale
    /\ pc = IF checkpoint_best THEN "init_raised" ELSE "new"
    /\ move = None
    /\ retry = None
    /\ prop_result = None
    /\ accept = "unset"
    /\ state0 = state
    /\ result0 = None
    /\ n_pulls = 0
    /\ n_applies = 0
    /\ n_evals = 0
    /\ exhausted = FALSE
    /\ memo_hits = 0
    /\ acc = NoCall
    /\ queue = << >>
    /\ queue_closed = FALSE
    /\ stats = << >>

\* a solver constructed without reporting (print_report_freq=0, queue=None), for
\* any proposal function and a sound eviction policy
Init ==
    /\ max_invalid_candidates \in 0..MaxInvalid
    /\ do_lazy_eval \in BOOLEAN
    /\ validate_lazy_eval \in BOOLEAN
    /\ checkpoint_best \in BOOLEAN
    /\ print_report_freq = 0
    /\ queue_maxsize = NoQueue
    /\ move_gen_func = Proposals
    /\ evict_sound = TRUE
    /\ state \in States
    /\ Common

\* reset that keeps the memo of the previous run
reset_keeps_memo ==
    /\ pc \in {"new", "idle"}
    /\ curr_iteration' = 0
    /\ curr_result' = None
    /\ demon_energy' = initial_demon_energy * Scale
    /\ demon_energy_max' = initial_demon_energy_max * Scale
    /\ pc' = "idle"
    /\ UNCHANGED << config, state, eval_memo, locals, history, acc, report >>

\* reset that starts a new stats list
reset_clears_stats ==
    /\ pc \in {"new", "idle"}
    /\ curr_iteration' = 0
    /\ curr_result' = None
    /\ eval_memo' = EmptyMemo
    /\ demon_energy' = initial_demon_energy * Scale
    /\ demon_energy_max' = initial_demon_energy_max * Scale
    /\ stats' = << >>
    /\ pc' = "idle"
    /\ UNCHANGED << config, state, locals, history, acc, queue, queue_closed >>

\* reset(max_iters)
reset ==
    /\ pc \in {"new", "idle"}
    /\ curr_iteration' = 0
    /\ curr_result' = None
    /\ eval_memo' = EmptyMemo
    /\ demon_energy' = initial_demon_energy * Scale
    /\ demon_energy_max' = initial_demon_energy_max * Scale
    /\ pc' = "idle"
    /\ UNCHANGED << config, state, locals, history, acc, report >>

\* step, up to the call of retry_attempt_proposals
StepBegin ==
    /\ pc = "idle"
    /\ curr_iteration < MaxIters
    /\ Len(stats) < MaxStats
    /\ curr_result' = IF curr_result = None
                      THEN Some(evaluate_problem(state, EmptyMemo).result)
                      ELSE curr_result
    /\ move' = None
    /\ retry' = None
    /\ prop_result' = None
    /\ accept' = "unset"
    /\ state0' = state
    /\ result0' = curr_result'
    /\ n_pulls' = 0
    /\ n_applies' = 0
    /\ n_evals' = 0
    /\ exhausted' = FALSE
    /\ memo_hits' = 0
    /\ pc' = "pull"
    /\ UNCHANGED << config, state, curr_iteration, eval_memo, demon_energy,
                    demon_energy_max, acc, report >>

\* RetryPull without the check of retry against max_invalid_candidates
RetryPull_unbounded ==
    /\ pc = "pull"
    /\ \/ /\ exhausted' = TRUE
          /\ pc' = "decide"
          /\ UNCHANGED << move, retry, n_pulls >>
       \/ \E m \in move_gen_func :
            /\ move' = Some(m)
            /\ retry' = Some(IF retry = None THEN 0 ELSE Val(retry) + 1)
            /\ n_pulls' = n_pulls + 1
            /\ exhausted' = FALSE
            /\ pc' = "apply"
    /\ UNCHANGED << config, state, solver, prop_result, accept, state0, result0, n_applies,
                    n_evals, memo_hits, acc, report >>

\* retry_attempt_proposals: the loop header, for retry, move in enumerate(move_gen),
\* and the check against max_invalid_candidates that follows each pull
RetryPull ==
    /\ pc = "pull"
    /\ \/ \* the generator is exhausted: the for-else branch, return move, None, retry
          /\ exhausted' = TRUE
          /\ pc' = "decide"
          /\ UNCHANGED << move, retry, n_pulls >>
       \/ \* the generator yields one more candidate
          \E m \in move_gen_func :
            LET r == IF retry = None THEN 0 ELSE Val(retry) + 1
            IN /\ move' = Some(m)
               /\ retry' = Some(r)
               /\ n_pulls' = n_pulls + 1
               /\ exhausted' = FALSE
               /\ pc' = IF r = max_invalid_candidates THEN "decide" ELSE "apply"
    /\ UNCHANGED << config, state, solver, prop_result, accept, state0, result0, n_applies,
                    n_evals, memo_hits, acc, report >>

\* succeeded = move.apply(state); a failed apply may leave its mutation behind
RetryApply ==
    /\ pc = "apply"
    /\ LET m == Val(move)
       IN /\ move' = Some([m EXCEPT !.saved = state[m.obj]])
          /\ IF m.ok
             THEN /\ state' = MoveApplied(state, m)
                  /\ pc' = "evict_applied"
             ELSE /\ state' \in {state, MoveApplied(state, m)}
                  /\ pc' = "evict_failed"
    /\ n_applies' = n_applies + 1
    /\ UNCHANGED << config, solver, retry, prop_result, accept, state0, result0, n_pulls,
                    n_evals, exhausted, memo_hits, acc, report >>

\* the successful-apply path without its eviction
RetryEvictApplied_skipped ==
    /\ pc = "evict_applied"
    /\ pc' = "move"
    /\ UNCHANGED << config, state, solver, locals, history, acc, report >>

\* the eviction that follows a successful apply
RetryEvictApplied ==
    /\ pc = "evict_applied"
    /\ \E extra \in SUBSET Nodes, missed \in Missable :
         eval_memo' = evict_memo_for_move(eval_memo, Val(move), extra, missed)
    /\ pc' = "move"
    /\ UNCHANGED << config, state, curr_iteration, curr_result, demon_energy,
                    demon_energy_max, locals, history, acc, report >>

\* validate_lazy_eval(state, consgraph, prop_result, filter_domain): TRUE when the
\* loss recomputed with a fresh memo equals the proposal's, FALSE when it raises
validate_ok(st, prop) == evaluate_problem(st, EmptyMemo).result.loss = prop.loss

\* _move after which retry_attempt_proposals goes on with the next candidate
_move_without_return ==
    /\ pc = "move"
    /\ \E extra \in SUBSET Nodes, missed \in Missable :
         LET evicted == evict_memo_for_move(eval_memo, Val(move), extra, missed)
             ev == IF do_lazy_eval
                   THEN evaluate_problem(state, evicted)
                   ELSE [result |-> evaluate_problem(state, EmptyMemo).result,
                         memo |-> eval_memo]
         IN /\ eval_memo' = ev.memo
            /\ prop_result' = Some(ev.result)
            /\ memo_hits' = IF do_lazy_eval THEN MemoHits(evicted) ELSE 0
            /\ pc' = IF validate_lazy_eval /\ ~validate_ok(state, ev.result)
                     THEN "raised"
                     ELSE "pull"
    /\ n_evals' = n_evals + 1
    /\ UNCHANGED << config, state, curr_iteration, curr_result, demon_energy,
                    demon_energy_max, move, retry, accept, state0, result0, n_pulls,
                    n_applies, exhausted, acc, report >>

\* _move that never calls validate_lazy_eval
_move_without_validation ==
    /\ pc = "move"
    /\ \E extra \in SUBSET Nodes, missed \in Missable :
         LET evicted == evict_memo_for_move(eval_memo, Val(move), extra, missed)
             ev == IF do_lazy_eval
                   THEN evaluate_problem(state, evicted)
                   ELSE [result |-> evaluate_problem(state, EmptyMemo).result,
                         memo |-> eval_memo]
         IN /\ eval_memo' = ev.memo
            /\ prop_result' = Some(ev.result)
            /\ memo_hits' = IF do_lazy_eval THEN MemoHits(evicted) ELSE 0
            /\ pc' = "decide"
    /\ n_evals' = n_evals + 1
    /\ UNCHANGED << config, state, curr_iteration, curr_result, demon_energy,
                    demon_energy_max, move, retry, accept, state0, result0, n_pulls,
                    n_applies, exhausted, acc, report >>

\* _move(consgraph, state, move, filter_domain), and the return of
\* retry_attempt_proposals that follows it
_move ==
    /\ pc = "move"
    /\ \E extra \in SUBSET Nodes, missed \in Missable :
         LET evicted == evict_memo_for_move(eval_memo, Val(move), extra, missed)
             ev == IF do_lazy_eval
                   THEN evaluate_problem(state, evicted)
                   ELSE [result |-> evaluate_problem(state, EmptyMemo).result,
                         memo |-> eval_memo]
         IN /\ eval_memo' = ev.memo
            /\ prop_result' = Some(ev.result)
            /\ memo_hits' = IF do_lazy_eval THEN MemoHits(evicted) ELSE 0
            /\ pc' = IF validate_lazy_eval /\ ~validate_ok(state, ev.result)
                     THEN "raised"
                     ELSE "decide"
    /\ n_evals' = n_evals + 1
    /\ UNCHANGED << config, state, curr_iteration, curr_result, demon_energy,
                    demon_energy_max, move, retry, accept, state0, result0, n_pulls,
                    n_applies, exhausted, acc, report >>

\* the failed-apply path without its eviction
RetryEvictFailed_skipped ==
    /\ pc = "evict_failed"
    /\ pc' = "revert_failed"
    /\ UNCHANGED << config, state, solver, locals, history, acc, report >>

\* the eviction that follows a failed apply
RetryEvictFailed ==
    /\ pc = "evict_failed"
    /\ \E extra \in SUBSET Nodes, missed \in Missable :
         eval_memo' = evict_memo_for_move(eval_memo, Val(move), extra, missed)
    /\ pc' = "revert_failed"
    /\ UNCHANGED << config, state, curr_iteration, curr_result, demon_energy,
                    demon_energy_max, locals, history, acc, report >>

\* move.revert(state) after a failed apply, then the next loop iteration
RetryRevertFailed ==
    /\ pc = "revert_failed"
    /\ state' = MoveReverted(state, Val(move))
    /\ pc' = "pull"
    /\ UNCHANGED << config, solver, locals, history, acc, report >>

\* accept_move without the hard-constraint branches
accept_move_soft_only(delta_energy, prop_viol, curr_viol, demon, draw) ==
    IF demon >= delta_energy \/ delta_energy <= 0
    THEN [accept |-> TRUE, demon_energy |-> demon - delta_energy]
    ELSE IF draw < random_acceptance_chance
         THEN [accept |-> TRUE, demon_energy |-> demon]
    ELSE [accept |-> FALSE, demon_energy |-> demon]

\* accept_move that accepts on the demon branch without paying delta_energy
accept_move_no_debit(delta_energy, prop_viol, curr_viol, demon, draw) ==
    LET viol_diff == prop_viol - curr_viol
    IN IF viol_diff > 0 THEN [accept |-> FALSE, demon_energy |-> demon]
       ELSE IF viol_diff < 0 THEN [accept |-> TRUE, demon_energy |-> demon]
       ELSE IF demon >= delta_energy \/ delta_energy <= 0
            THEN [accept |-> TRUE, demon_energy |-> demon]
       ELSE IF draw < random_acceptance_chance
            THEN [accept |-> TRUE, demon_energy |-> demon]
       ELSE [accept |-> FALSE, demon_energy |-> demon]

\* accept_move that takes an uphill move only when demon_energy > delta_energy
accept_move_strict(delta_energy, prop_viol, curr_viol, demon, draw) ==
    LET viol_diff == prop_viol - curr_viol
    IN IF viol_diff > 0 THEN [accept |-> FALSE, demon_energy |-> demon]
       ELSE IF viol_diff < 0 THEN [accept |-> TRUE, demon_energy |-> demon]
       ELSE IF demon > delta_energy \/ delta_energy <= 0
            THEN [accept |-> TRUE, demon_energy |-> demon - delta_energy]
       ELSE IF draw < random_acceptance_chance
            THEN [accept |-> TRUE, demon_energy |-> demon]
       ELSE [accept |-> FALSE, demon_energy |-> demon]

\* accept_move whose fallback fires on a draw <= random_acceptance_chance
accept_move_draw_inclusive(delta_energy, prop_viol, curr_viol, demon, draw) ==
    LET viol_diff == prop_viol - curr_viol
    IN IF viol_diff > 0 THEN [accept |-> FALSE, demon_energy |-> demon]
       ELSE IF viol_diff < 0 THEN [accept |-> TRUE, demon_energy |-> demon]
       ELSE IF demon >= delta_energy \/ delta_energy <= 0
            THEN [accept |-> TRUE, demon_energy |-> demon - delta_energy]
       ELSE IF draw <= random_acceptance_chance
            THEN [accept |-> TRUE, demon_energy |-> demon]
       ELSE [accept |-> FALSE, demon_energy |-> demon]

\* accept_move that tries the random fallback before the hard-constraint branches
accept_move_fallback_first(delta_energy, prop_viol, curr_viol, demon, draw) ==
    LET viol_diff == prop_viol - curr_viol
    IN IF draw < random_acceptance_chance
       THEN [accept |-> TRUE, demon_energy |-> demon]
       ELSE IF viol_diff > 0 THEN [accept |-> FALSE, demon_energy |-> demon]
       ELSE IF viol_diff < 0 THEN [accept |-> TRUE, demon_energy |-> demon]
       ELSE IF demon >= delta_energy \/ delta_energy <= 0
            THEN [accept |-> TRUE, demon_energy |-> demon - delta_energy]
       ELSE [accept |-> FALSE, demon_energy |-> demon]

\* accept_move whose random fallback also pays delta_energy
accept_move_fallback_debit(delta_energy, prop_viol, curr_viol, demon, draw) ==
    LET viol_diff == prop_viol - curr_viol
    IN IF viol_diff > 0 THEN [accept |-> FALSE, demon_energy |-> demon]
       ELSE IF viol_diff < 0 THEN [accept |-> TRUE, demon_energy |-> demon]
       ELSE IF demon >= delta_energy \/ delta_energy <= 0
            THEN [accept |-> TRUE, demon_energy |-> demon - delta_energy]
       ELSE IF draw < random_acceptance_chance
            THEN [accept |-> TRUE, demon_energy |-> demon - delta_energy]
       ELSE [accept |-> FALSE, demon_energy |-> demon]

\* accept_move(delta_energy, prop_result): the decision and the demon energy after it
accept_move(delta_energy, prop_viol, curr_viol, demon, draw) ==
    LET viol_diff == prop_viol - curr_viol
    IN IF viol_diff > 0 THEN [accept |-> FALSE, demon_energy |-> demon]
       ELSE IF viol_diff < 0 THEN [accept |-> TRUE, demon_energy |-> demon]
       ELSE IF demon >= delta_energy \/ delta_energy <= 0
            THEN [accept |-> TRUE, demon_energy |-> demon - delta_energy]
       ELSE IF draw < random_acceptance_chance
            THEN [accept |-> TRUE, demon_energy |-> demon]
       ELSE [accept |-> FALSE, demon_energy |-> demon]

\* calculate_delta_energy(prop_result)
calculate_delta_energy(prop, curr) == prop.loss - curr.loss

\* step that accepts a move without taking its EvalResult as the current one
StepDecide_keeps_result ==
    /\ pc = "decide"
    /\ IF prop_result = None
       THEN /\ accept' = "None"
            /\ pc' = "update"
            /\ UNCHANGED << curr_result, demon_energy >>
       ELSE \E draw \in Draws :
              LET prop == Val(prop_result)
                  curr == Val(curr_result)
                  dt_energy == calculate_delta_energy(prop, curr)
                  res == accept_move(dt_energy, prop.viol, curr.viol, demon_energy, draw)
              IN /\ demon_energy' = res.demon_energy
                 /\ curr_result' = curr_result
                 /\ IF res.accept
                    THEN /\ accept' = "True"
                         /\ pc' = "update"
                    ELSE /\ accept' = "False"
                         /\ pc' = "evict_rejected"
    /\ UNCHANGED << config, state, curr_iteration, eval_memo, demon_energy_max,
                    move, retry, prop_result, history, acc, report >>

\* step: the branch on prop_result, accept_move, and move.accept on acceptance
StepDecide ==
    /\ pc = "decide"
    /\ IF prop_result = None
       THEN /\ accept' = "None"
            /\ pc' = "update"
            /\ UNCHANGED << curr_result, demon_energy >>
       ELSE \E draw \in Draws :
              LET prop == Val(prop_result)
                  curr == Val(curr_result)
                  dt_energy == calculate_delta_energy(prop, curr)
                  res == accept_move(dt_energy, prop.viol, curr.viol, demon_energy, draw)
              IN /\ demon_energy' = res.demon_energy
                 /\ IF res.accept
                    THEN /\ accept' = "True"
                         /\ curr_result' = prop_result
                         /\ pc' = "update"
                    ELSE /\ accept' = "False"
                         /\ curr_result' = curr_result
                         /\ pc' = "evict_rejected"
    /\ UNCHANGED << config, state, curr_iteration, eval_memo, demon_energy_max,
                    move, retry, prop_result, history, acc, report >>

\* the rejection path without its eviction
StepEvictRejected_skipped ==
    /\ pc = "evict_rejected"
    /\ pc' = "revert_rejected"
    /\ UNCHANGED << config, state, solver, locals, history, acc, report >>

\* the eviction that follows a rejection
StepEvictRejected ==
    /\ pc = "evict_rejected"
    /\ \E extra \in SUBSET Nodes, missed \in Missable :
         eval_memo' = evict_memo_for_move(eval_memo, Val(move), extra, missed)
    /\ pc' = "revert_rejected"
    /\ UNCHANGED << config, state, curr_iteration, curr_result, demon_energy,
                    demon_energy_max, locals, history, acc, report >>

\* the rejection path without its revert
StepRevertRejected_skipped ==
    /\ pc = "revert_rejected"
    /\ pc' = "update"
    /\ UNCHANGED << config, state, solver, locals, history, acc, report >>

\* move.revert(state) of the rejected move
StepRevertRejected ==
    /\ pc = "revert_rejected"
    /\ state' = MoveReverted(state, Val(move))
    /\ pc' = "update"
    /\ UNCHANGED << config, solver, locals, history, acc, report >>

\* initial_demon_energy_max * reduction_factor^i, in units of 1/Scale
DemonEnergyMaxAt(i) ==
    initial_demon_energy_max * Pow(reduction_factor_num, i)
        * Pow(reduction_factor_den, MaxIters - i)

\* update_demon_energy_max without the clamp of demon_energy
update_demon_energy_max_no_clamp ==
    /\ pc = "update"
    /\ demon_energy_max' = DemonEnergyMaxAt(curr_iteration)
    /\ pc' = "report"
    /\ UNCHANGED << config, state, curr_iteration, curr_result, eval_memo,
                    demon_energy, locals, history, acc, report >>

\* update_demon_energy_max()
update_demon_energy_max ==
    /\ pc = "update"
    /\ demon_energy_max' = DemonEnergyMaxAt(curr_iteration)
    /\ demon_energy' = IF demon_energy > demon_energy_max'
                       THEN demon_energy_max'
                       ELSE demon_energy
    /\ pc' = "report"
    /\ UNCHANGED << config, state, curr_iteration, curr_result, eval_memo, locals,
                    history, acc, report >>

\* is_log_step, computed at the entry of step from the iteration counter
is_log_step == print_report_freq # 0 /\ curr_iteration % print_report_freq = 0

\* the condition of the report block: an accepted move, or a log step
report_due == (print_report_freq # 0 /\ accept = "True") \/ is_log_step

\* the status record step sends, and the stats record it appends
status_record == [curr_loss |-> Val(curr_result).loss, curr_viol |-> Val(curr_result).viol]
stats_record == [curr_iteration |-> curr_iteration, accept |-> accept]

\* step: the report block, with self.queue.put(record) on a multiprocessing queue:
\* put raises ValueError on a closed queue and waits for a free slot on a full one
StepReport ==
    /\ pc = "report"
    /\ IF report_due /\ queue_maxsize # NoQueue
       THEN IF queue_closed
            THEN /\ pc' = "put_raised"
                 /\ UNCHANGED queue
            ELSE /\ Len(queue) < queue_maxsize
                 /\ queue' = Append(queue, status_record)
                 /\ pc' = "finish"
       ELSE /\ pc' = "finish"
            /\ UNCHANGED queue
    /\ UNCHANGED << config, state, solver, locals, history, acc, queue_closed, stats >>

\* step, after the report block: the stats record of a log step,
\* self.curr_iteration += 1 and the return
StepEnd ==
    /\ pc = "finish"
    /\ stats' = IF is_log_step THEN Append(stats, stats_record) ELSE stats
    /\ curr_iteration' = curr_iteration + 1
    /\ pc' = "idle"
    /\ UNCHANGED << config, state, curr_result, eval_memo, demon_energy,
                    demon_energy_max, locals, history, acc, queue, queue_closed >>

\* the aggregator reads one status record from the queue
QueueGet ==
    /\ queue # << >>
    /\ queue' = Tail(queue)
    /\ UNCHANGED << config, state, solver, pc, locals, history, acc, queue_closed,
                    stats >>

\* queue.close() in the solver's process, between two steps
QueueClose ==
    /\ pc = "idle"
    /\ queue_maxsize # NoQueue
    /\ ~queue_closed
    /\ queue_closed' = TRUE
    /\ UNCHANGED << config, state, solver, pc, locals, history, acc, queue, stats >>

Next ==
    \/ reset
    \/ StepBegin
    \/ RetryPull
    \/ RetryApply
    \/ RetryEvictApplied
    \/ _move
    \/ RetryEvictFailed
    \/ RetryRevertFailed
    \/ StepDecide
    \/ StepEvictRejected
    \/ StepRevertRejected
    \/ update_demon_energy_max
    \/ StepReport
    \/ StepEnd

Spec == Init /\ [][Next]_vars

\* ------------------------------------------------ reporting and statistics
\* a proposal function that only moves object 1
ProposalsOfOne == {m \in Proposals : m.obj = 1}

\* a solver constructed with print_report_freq 1 (the default) or 2, with or
\* without a bounded reporting queue, stepping with a proposal function that
\* moves one object
InitReport ==
    /\ max_invalid_candidates \in {0, 1}
    /\ do_lazy_eval = TRUE
    /\ validate_lazy_eval = FALSE
    /\ checkpoint_best = FALSE
    /\ print_report_freq \in {1, 2}
    /\ queue_maxsize \in {NoQueue, QueueMax}
    /\ move_gen_func = ProposalsOfOne
    /\ evict_sound = TRUE
    /\ state = [o \in Objs |-> o - 1]
    /\ Common

\* the solver, the aggregator that reads the queue, and the closing of the queue
NextReport == Next \/ QueueGet \/ QueueClose

SpecReport == InitReport /\ [][NextReport]_vars

\* the operations inside one call of step
StepBody ==
    \/ RetryPull
    \/ RetryApply
    \/ RetryEvictApplied
    \/ _move
    \/ RetryEvictFailed
    \/ RetryRevertFailed
    \/ StepDecide
    \/ StepEvictRejected
    \/ StepRevertRejected
    \/ update_demon_energy_max
    \/ StepReport
    \/ StepEnd

\* the same solver and queue, where every operation inside step that can run
\* does run (each apply, revert, evaluation and generator pull terminates); the
\* aggregator is free never to read
SpecReportLive == SpecReport /\ WF_vars(StepBody)

\* --------------------------------------------------- validation of the memo
\* a solver whose eviction policy may leave stale entries in the memo, with and
\* without validate_lazy_eval
InitValidate ==
    /\ max_invalid_candidates = 1
    /\ do_lazy_eval \in BOOLEAN
    /\ validate_lazy_eval \in BOOLEAN
    /\ checkpoint_best = FALSE
    /\ print_report_freq = 0
    /\ queue_maxsize = NoQueue
    /\ move_gen_func = ProposalsOfOne
    /\ evict_sound = FALSE
    /\ state = [o \in Objs |-> o - 1]
    /\ Common

SpecValidate == InitValidate /\ [][Next]_vars

\* ------------------------------------------------- accept_move on its own
\* demon energies, delta energies (both in units of Scale) and violation counts
\* that accept_move is called with
AcceptDemons == {0, 1, 100, 200}
AcceptDeltas == {-140, -1, 0, 1, 100, 101, 140}
AcceptViols == {0, 1, 2}

\* a solver in the middle of a run, about to call accept_move
InitAccept ==
    /\ max_invalid_candidates = 0
    /\ do_lazy_eval = TRUE
    /\ validate_lazy_eval = FALSE
    /\ checkpoint_best = FALSE
    /\ print_report_freq = 0
    /\ queue_maxsize = NoQueue
    /\ move_gen_func = Proposals
    /\ evict_sound = TRUE
    /\ state \in States
    /\ curr_iteration = 0
    /\ curr_result = Some(evaluate_problem(state, EmptyMemo).result)
    /\ eval_memo = EmptyMemo
    /\ demon_energy_max \in {DemonEnergyMaxAt(i) : i \in 0..MaxIters}
    /\ demon_energy \in {d * Scale : d \in AcceptDemons}
    /\ demon_energy <= demon_energy_max
    /\ pc = "accept_move"
    /\ move = None
    /\ retry = None
    /\ prop_result = None
    /\ accept = "unset"
    /\ state0 = state
    /\ result0 = curr_result
    /\ n_pulls = 0
    /\ n_applies = 0
    /\ n_evals = 0
    /\ exhausted = FALSE
    /\ memo_hits = 0
    /\ acc = NoCall
    /\ queue = << >>
    /\ queue_closed = FALSE
    /\ stats = << >>

\* one call accept_move(delta_energy, prop_result), its arguments and outcome recorded
AcceptMoveCall ==
    /\ pc = "accept_move"
    /\ \E delta \in AcceptDeltas, prop_viol \in AcceptViols, draw \in Draws :
         LET curr_viol == Val(curr_result).viol
             res == accept_move(delta * Scale, prop_viol, curr_viol, demon_energy, draw)
         IN /\ demon_energy' = res.demon_energy
            /\ acc' = [called |-> TRUE, delta_energy |-> delta * Scale,
                       prop_viol |-> prop_viol, curr_viol |-> curr_viol,
                       demon_before |-> demon_energy,
                       demon_max_before |-> demon_energy_max,
                       draw |-> draw, accept |-> res.accept]
    /\ pc' = "accept_done"
    /\ UNCHANGED << config, state, curr_iteration, curr_result, eval_memo,
                    demon_energy_max, locals, history, report >>

NextAccept == AcceptMoveCall

SpecAccept == InitAccept /\ [][NextAccept]_vars

\* ------------------------------------------------------------------ claims
\* evaluation of a State from scratch, with an empty memo
FullEval(st) == evaluate_problem(st, EmptyMemo).result

\* step has returned normally at least once since the last reset
StepReturned == pc = "idle" /\ curr_iteration >= 1

\* retry_attempt_proposals has returned (move, prop_result, retry) to step
RetryReturned == pc = "decide"

\* C1: whenever step returns normally, State is the State at step entry (no move,
\* failed applies only, or a rejected move) or the State at step entry with
\* exactly the accepted move applied; no move stays applied without acceptance.
C1_StateAfterStep ==
    StepReturned =>
        IF accept = "True"
        THEN state = MoveApplied(state0, Val(move))
        ELSE state = state0

\* an accepted move that changed State, after an earlier candidate failed and was reverted
C1_Witness ==
    /\ StepReturned
    /\ accept = "True"
    /\ state # state0
    /\ n_applies >= 2

\* C2: every EvalResult the incremental path produces (_move with do_lazy_eval,
\* reading the solver's memo after eviction) has the loss and the violation count
\* of an evaluation of the same State with an empty memo.
C2_MemoEquivalence ==
    (pc \in {"decide", "raised"} /\ prop_result # None /\ do_lazy_eval) =>
        /\ Val(prop_result).loss = FullEval(state).loss
        /\ Val(prop_result).viol = FullEval(state).viol

\* an incremental evaluation that took a node's value from the memo that earlier
\* steps of the run left populated
C2_Witness ==
    /\ pc = "decide"
    /\ prop_result # None
    /\ do_lazy_eval
    /\ memo_hits >= 1
    /\ curr_iteration >= 1

\* C3: accept_move is decided by the violation counts alone when they differ:
\* fewer proposed violations are accepted, more are rejected, whatever
\* delta_energy, demon_energy, demon_energy_max and the random draw are.
C3_ViolationsDecide ==
    acc.called =>
        /\ acc.prop_viol < acc.curr_viol => acc.accept
        /\ acc.prop_viol > acc.curr_viol => ~acc.accept

\* fewer violations accepted although the move is unaffordable and the draw is high
C3_Witness ==
    /\ acc.called
    /\ acc.prop_viol < acc.curr_viol
    /\ acc.delta_energy > acc.demon_before
    /\ acc.draw >= random_acceptance_chance
    /\ acc.accept

\* C4 as stated: every move accepted with equal violation counts leaves
\* demon_energy at its value before the decision minus delta_energy.
C4_Original ==
    (acc.called /\ acc.accept /\ acc.prop_viol = acc.curr_viol) =>
        demon_energy = acc.demon_before - acc.delta_energy

\* C4, amended: a move accepted with equal violation counts on the demon branch
\* (demon_energy >= delta_energy or delta_energy <= 0) leaves demon_energy at its
\* value before the decision minus delta_energy; a move accepted by the random
\* fallback leaves demon_energy unchanged.
C4_EnergyOnAccept ==
    (acc.called /\ acc.accept /\ acc.prop_viol = acc.curr_viol) =>
        IF acc.demon_before >= acc.delta_energy \/ acc.delta_energy <= 0
        THEN demon_energy = acc.demon_before - acc.delta_energy
        ELSE demon_energy = acc.demon_before

\* an affordable uphill move accepted and paid for
C4_Witness ==
    /\ acc.called
    /\ acc.accept
    /\ acc.prop_viol = acc.curr_viol
    /\ acc.delta_energy > 0
    /\ acc.demon_before >= acc.delta_energy
    /\ demon_energy = acc.demon_before - acc.delta_energy

\* C5: after k >= 1 completed steps following a reset, demon_energy_max equals
\* initial_demon_energy_max * reduction_factor^k.
C5_CeilingAfterKSteps ==
    StepReturned => demon_energy_max = DemonEnergyMaxAt(curr_iteration)

\* C6: whenever step returns normally, demon_energy <= demon_energy_max.
C6_DemonBelowCeiling ==
    StepReturned => demon_energy <= demon_energy_max

\* an accepted downhill move with equal violation counts, demon_energy at the ceiling
C6_Witness ==
    /\ StepReturned
    /\ accept = "True"
    /\ FullEval(state).viol = FullEval(state0).viol
    /\ FullEval(state).loss < FullEval(state0).loss
    /\ demon_energy = demon_energy_max

C8_PullBound == n_pulls <= max_invalid_candidates

\* C9: when retry_attempt_proposals ends without a successful apply, the returned
\* move and the returned result are both None.
C9_NoneOnFailure ==
    (RetryReturned /\ prop_result = None) => move = None

\* C10: when the proposal sequence yields n unrealizable moves and then ends, with
\* n < max_invalid_candidates, the returned attempts count equals n (stated for
\* n >= 1, where the count returned is a number).
C10_AttemptsCount ==
    (RetryReturned /\ exhausted /\ prop_result = None
        /\ n_applies >= 1 /\ n_applies < max_invalid_candidates) =>
        retry = Some(n_applies)

\* C11: retry_attempt_proposals stops at the first candidate whose apply succeeds:
\* while the loop runs no candidate has been evaluated, and when it returns a
\* result the returned move is the one candidate that was applied with success,
\* the last one pulled, the result is the evaluation of the post-apply State, and
\* no acceptance decision has been taken.
C11_StopsAtFirstSuccess ==
    /\ pc \in {"pull", "apply", "evict_failed", "revert_failed"} =>
           (n_evals = 0 /\ prop_result = None)
    /\ (RetryReturned /\ prop_result # None) =>
           /\ Val(move).ok
           /\ n_evals = 1
           /\ n_pulls = n_applies
           /\ retry = Some(n_applies - 1)
           /\ state = MoveApplied(state0, Val(move))
           /\ Val(prop_result) = FullEval(state)
           /\ accept = "unset"
           /\ curr_result = result0

\* the second candidate succeeds after the first one failed and was reverted
C11_Witness ==
    /\ RetryReturned
    /\ prop_result # None
    /\ n_applies = 2
    /\ state # state0

\* a revert is about to run
AtRevert == pc \in {"revert_failed", "revert_rejected"}

\* C12 as stated: move.revert is called only on a move whose apply returned
\* success; a candidate whose apply failed is discarded without a revert.
C12_Original == AtRevert => Val(move).ok

\* C12, amended: move.revert is called only on a move on which apply was called in
\* the same step, and after the memo eviction for it: on the move whose apply
\* succeeded and that accept_move rejected, and on every candidate whose apply
\* returned failure; a candidate that was pulled and never applied is not reverted.
C12_RevertOnlyApplied ==
    AtRevert =>
        /\ Val(move).saved # -1
        /\ n_applies >= 1
        /\ \A n \in Nodes : Val(move).obj \in Deps(n) => eval_memo[n] = NoEntry
        /\ pc = "revert_rejected" => (Val(move).ok /\ accept = "False")
        /\ pc = "revert_failed" => (~Val(move).ok /\ prop_result = None)

\* the revert of a candidate whose failed apply left a mutation, in a later step
C12_Witness ==
    /\ pc = "revert_failed"
    /\ state # state0
    /\ curr_iteration >= 1

\* C13: with equal violation counts, accept_move accepts every move with
\* delta_energy <= 0 and every move with delta_energy <= demon_energy, whatever
\* the random draw and demon_energy_max are.
C13_DemonBranchAccepts ==
    (acc.called /\ acc.prop_viol = acc.curr_viol
        /\ (acc.delta_energy <= 0 \/ acc.delta_energy <= acc.demon_before)) =>
        acc.accept

\* an uphill move that costs exactly the demon energy, accepted on a high draw
C13_Witness ==
    /\ acc.called
    /\ acc.prop_viol = acc.curr_viol
    /\ acc.delta_energy > 0
    /\ acc.delta_energy = acc.demon_before
    /\ acc.draw >= random_acceptance_chance
    /\ acc.accept

\* C14: with equal violation counts, delta_energy > 0 and delta_energy >
\* demon_energy, accept_move rejects whenever the draw is >= 0.01; and every
\* rejection leaves demon_energy and demon_energy_max unchanged.
C14_RejectLeavesEnergy ==
    acc.called =>
        /\ (acc.prop_viol = acc.curr_viol /\ acc.delta_energy > 0
               /\ acc.delta_energy > acc.demon_before
               /\ acc.draw >= random_acceptance_chance) => ~acc.accept
        /\ ~acc.accept =>
               /\ demon_energy = acc.demon_before
               /\ demon_energy_max = acc.demon_max_before

\* an unaffordable uphill move rejected on a draw of exactly 0.01
C14_Witness ==
    /\ acc.called
    /\ acc.prop_viol = acc.curr_viol
    /\ acc.delta_energy > acc.demon_before
    /\ acc.draw = random_acceptance_chance
    /\ ~acc.accept
    /\ demon_energy = acc.demon_before

\* a call of reset: the only step from "new" or "idle" to "idle" that leaves the
\* queue as it is
IsReset ==
    /\ pc \in {"new", "idle"}
    /\ pc' = "idle"
    /\ UNCHANGED << queue, queue_closed >>

\* C15: after reset(max_iters), whatever came before, the iteration counter is 0,
\* the memo is empty, there is no current EvalResult, and demon_energy and
\* demon_energy_max have their configured initial values.
C15_ResetClears ==
    [][IsReset =>
          /\ curr_iteration' = 0
          /\ eval_memo' = EmptyMemo
          /\ curr_result' = None
          /\ demon_energy' = initial_demon_energy * Scale
          /\ demon_energy_max' = initial_demon_energy_max * Scale]_vars

\* the solver right after a reset that followed a step
C15_Witness ==
    /\ pc = "idle"
    /\ curr_iteration = 0
    /\ accept # "unset"
    /\ curr_result = None
    /\ eval_memo = EmptyMemo
    /\ demon_energy = initial_demon_energy * Scale
    /\ demon_energy_max = initial_demon_energy_max * Scale

\* the stats record of the step that has just returned, when it was a log step
LastStepLogged ==
    print_report_freq # 0 /\ (curr_iteration - 1) % print_report_freq = 0

\* C16: a step in which the retry loop yields no evaluated move does not raise,
\* leaves State and the current EvalResult unchanged, records the acceptance
\* outcome None, and returns with demon_energy_max updated by the decay rule and
\* the iteration counter increased.
C16_NoMoveStep ==
    (accept = "None" /\ (pc \in {"update", "report", "finish", "put_raised"}
                             \/ StepReturned)) =>
        /\ pc # "put_raised"
        /\ state = state0
        /\ curr_result = result0
        /\ StepReturned =>
               /\ demon_energy_max = DemonEnergyMaxAt(curr_iteration - 1)
               /\ LastStepLogged =>
                      stats[Len(stats)] = [curr_iteration |-> curr_iteration - 1,
                                           accept |-> "None"]

\* C17: sending a status record never blocks step: the report block can always
\* go on, even with a bounded queue that is full and that nobody reads.
C17_PutNeverBlocks == pc = "report" => ENABLED StepReport

\* C18: a failure of the reporting queue's put during step is absorbed: step does
\* not raise out of the put.
C18_PutFailureAbsorbed == pc # "put_raised"

\* C19: with validate_lazy_eval, no proposal whose incremental loss differs from
\* the loss recomputed with a fresh memo reaches the acceptance decision: _move
\* raises, and the step ends there with no decision taken.
C19_MismatchRaises ==
    /\ (pc = "decide" /\ prop_result # None /\ validate_lazy_eval) =>
           Val(prop_result).loss = FullEval(state).loss
    /\ pc = "raised" =>
           /\ validate_lazy_eval
           /\ Val(prop_result).loss # FullEval(state).loss
           /\ accept = "unset"
           /\ curr_result = result0

\* a stale memo entry gave a wrong loss and _move raised
C19_Witness ==
    /\ pc = "raised"
    /\ validate_lazy_eval
    /\ memo_hits >= 1
    /\ Val(prop_result).loss # FullEval(state).loss

\* C20: a solver constructed with checkpoint_best=True failed at construction:
\* neither reset nor step ever runs on it.
C20_CheckpointBestFails == checkpoint_best => pc = "init_raised"

\* the constructor raised
C20_Witness == checkpoint_best /\ pc = "init_raised"

\* the memo holds no entry of a node that depends on what move m touches
EvictedFor(m) == \A n \in Nodes : m.obj \in Deps(n) => eval_memo[n] = NoEntry

\* every entry the memo holds is the value of its node in the State as it is
MemoCoherent == \A n \in Nodes : eval_memo[n] # NoEntry => eval_memo[n] = EvalNode(n, state)

\* C21: for every move step handles, the eviction for the move is done after its
\* apply and before the evaluation that reads the memo, and before every revert
\* of it (failed apply or rejection): when _move or a revert is about to run the
\* memo holds nothing that depends on the move, and outside the two points
\* between a mutation and its eviction every entry agrees with the State.
C21_EvictBeforeUse ==
    /\ pc = "move" => EvictedFor(Val(move))
    /\ AtRevert => EvictedFor(Val(move))
    /\ pc \notin {"evict_applied", "evict_failed"} => MemoCoherent

\* _move is about to evaluate an applied move with a memo filled by earlier steps
C21_Witness ==
    /\ pc = "move"
    /\ do_lazy_eval
    /\ curr_iteration >= 1
    /\ state # state0
    /\ eval_memo # EmptyMemo

\* the step of the model in which step() returns
StepReturns == pc = "finish" /\ pc' = "idle"

InStep ==
    pc \in {"pull", "apply", "evict_applied", "move", "evict_failed", "revert_failed",
            "decide", "evict_rejected", "revert_rejected", "update", "report", "finish"}

\* C23: every call of step terminates, for every proposal sequence: it does not
\* run or wait forever, but comes to its end (the return that follows the
\* iteration-counter increment, or at the least an exception).
C23_StepTerminates == InStep ~> ~InStep

\* C24: within one run the violation count of the current EvalResult never
\* increases from one completed step to the next: when step returns, it is at
\* most what it was at step entry, and between two steps it does not change.
C24_ViolationsNeverIncrease ==
    /\ StepReturned => Val(curr_result).viol <= Val(result0).viol
    /\ pc \in {"evict_rejected", "revert_rejected", "update", "report", "finish"} =>
           Val(curr_result).viol <= Val(result0).viol
    /\ (pc = "idle" /\ curr_result # None) => curr_result = IF accept = "True"
                                                            THEN prop_result
                                                            ELSE result0

\* a step that returned after rejecting a proposal with more violations
C24_Witness ==
    /\ StepReturned
    /\ accept = "False"
    /\ Val(prop_result).viol > Val(curr_result).viol

\* C25: with initial_demon_energy, initial_demon_energy_max and reduction_factor
\* all >= 0, demon_energy >= 0 in every reachable state, after any sequence of
\* reset and step calls, deltas and acceptance outcomes.
C25_DemonNonNegative == demon_energy >= 0

\* a step that returned after an uphill move was accepted with the demon unable
\* to pay for it (the random fallback)
C25_Witness ==
    /\ StepReturned
    /\ accept = "True"
    /\ Val(curr_result).viol = Val(result0).viol
    /\ Val(curr_result).loss - Val(result0).loss > initial_demon_energy_max * Scale
    /\ demon_energy >= 0

\* C26: whenever step returns normally, the current EvalResult is the evaluation
\* of the State as it is: the proposal's EvalResult exactly when the move was
\* accepted, the one at step entry (the seed evaluation in the first step)
\* when the move was rejected and reverted or no move was evaluated.
C26_CurrentResultOfState ==
    StepReturned =>
        /\ Val(curr_result) = FullEval(state)
        /\ Val(result0) = FullEval(state0)
        /\ IF accept = "True"
           THEN curr_result = prop_result
           ELSE curr_result = result0

\* the second step of a run accepted a move that changed the evaluation
C26_Witness ==
    /\ StepReturned
    /\ curr_iteration >= 2
    /\ accept = "True"
    /\ curr_result # result0
    /\ state # state0
====
